---------------------------- MODULE Spec2Model ----------------------------
(***************************************************************************)
(* Model of src/bitcoin_puzzle_coordinator.py: the RangeManager that       *)
(* splits the total search interval, and the CloudShellCoordinator that    *)
(* drives every CloudShellInstance through connect / upload / start,       *)
(* polls it from the health-check thread, restarts it and stops it.        *)
(***************************************************************************)
EXTENDS Integers, Sequences, FiniteSets, TLC

\* ------------------------------------------------------------------ bounds
\* Largest number of instances the fleet holds (instance names are 1..MaxWorkers).
MaxWorkers == 2
\* hash(instance_name) is drawn from 0..MaxHash.
MaxHash == 1
\* Largest number of entries of one instance's errors list.
MaxErrors == 1
\* Largest number of check_instance_status tasks of one instance in the pool.
MaxChecks == 2
\* Pure range computations: total_start in 0..MaxStart, total_end - total_start
\* in 0..MaxSpan, num_instances in 1..MaxN.
MaxStart == 2
MaxSpan == 8
MaxN == 4
\* parse_statistics on its own: the log holds up to MaxLines lines of up to
\* MaxParts parts, and a number read from it is in 1..MaxMetric.
MaxLines == 2
MaxParts == 2
MaxMetric == 1

VARIABLES
    total_start,      \* RangeManager.total_start
    total_end,        \* RangeManager.total_end
    assigned_ranges,  \* RangeManager.assigned_ranges: name -> <<start, end>>
    hashOf,           \* hash(name) of this process, fixed at start-up
    calc,             \* pure range computations: [n, ranges]
    stats,            \* parse_statistics on its own: [log_output, inst, result]
    env,              \* what the remote side may answer in this run
    instances,        \* CloudShellCoordinator.instances, in insertion order;
                      \* the instance's name is its position
    running,          \* CloudShellCoordinator.running
    cpc,              \* control thread: where it is
    cidx,             \* control thread: position of its for loop in instances
    hpc,              \* health-check thread: where it is
    polling,          \* name -> check tasks submitted, liveness poll not yet answered
    fetching,         \* name -> check tasks past the poll, log fetch not yet answered
    everRunning,      \* history: names whose status has been "running"
    assignedN,        \* history: name -> num_instances of its last range assignment
    redeploy,         \* history: what the restart's start_solver_on_instance just
                      \* did, until the control thread's next step
    restarting,       \* history: the instance the restart sweep is restarting,
                      \* as the sweep read it, until the sweep's next instance
    connectFailed,    \* history: names whose connect of the start sequence failed
    runningAtStop,    \* history: names "running" when stop_coordination was entered
    stopAttempts,     \* history: name -> outcomes of the stop commands attempted
    statusAtVisit     \* history: name -> status read by the stop loop

vars == <<total_start, total_end, assigned_ranges, hashOf, calc, stats, env, instances,
          running, cpc, cidx, hpc, polling, fetching, everRunning,
          assignedN, redeploy, restarting, runningAtStop, connectFailed, stopAttempts, statusAtVisit>>

rangeVars == <<total_start, total_end, assigned_ranges, hashOf>>
fleetVars == <<instances, running, cpc, cidx, hpc, polling, fetching>>
histVars == <<everRunning, assignedN, redeploy, restarting, runningAtStop, connectFailed,
              stopAttempts, statusAtVisit>>
otherHist == <<everRunning, assignedN, runningAtStop, connectFailed, stopAttempts, statusAtVisit>>

AllNames == 1 .. MaxWorkers
Names == 1 .. Len(instances)

\* ------------------------------------------------------- RangeManager (pure)

\* Variant of RangeForOrdinal without line 93-94: the last ordinal's end is not
\* moved to total_end.
RangeEndAlwaysSized(S, E, instance_hash, num_instances) ==
    LET range_size == (E - S) \div num_instances
        start == S + (instance_hash * range_size)
    IN  <<start, start + range_size - 1>>

\* Variant of RangeForOrdinal whose end is start + range_size (line 91 without
\* its - 1).
RangeEndInclusiveOverlap(S, E, instance_hash, num_instances) ==
    LET range_size == (E - S) \div num_instances
        start == S + (instance_hash * range_size)
    IN  <<start, IF instance_hash = num_instances - 1 THEN E ELSE start + range_size>>

\* Variant of RangeForOrdinal whose range_size is rounded up.
RangeRoundedUp(S, E, instance_hash, num_instances) ==
    LET range_size == ((E - S) + num_instances - 1) \div num_instances
        start == S + (instance_hash * range_size)
    IN  <<start, IF instance_hash = num_instances - 1 THEN E ELSE start + range_size - 1>>

\* The range of ordinal instance_hash among num_instances, lines 84-94.
RangeForOrdinal(S, E, instance_hash, num_instances) ==
    LET total_range == E - S
        range_size == total_range \div num_instances
        start == S + (instance_hash * range_size)
        end == start + range_size - 1
    IN  <<start, IF instance_hash = num_instances - 1 THEN E ELSE end>>

\* The values of the inclusive interval r = <<lo, hi>>.
Values(r) == r[1] .. r[2]

\* hex(n) of Python, as the sequence of its characters.
HexChars == <<"0", "1", "2", "3", "4", "5", "6", "7",
              "8", "9", "a", "b", "c", "d", "e", "f">>

RECURSIVE HexDigits(_)
HexDigits(n) ==
    IF n < 16 THEN <<HexChars[n + 1]>>
    ELSE HexDigits(n \div 16) \o <<HexChars[(n % 16) + 1]>>

hex(n) ==
    IF n < 0 THEN <<"-", "0", "x">> \o HexDigits(0 - n)
    ELSE <<"0", "x">> \o HexDigits(n)


\* ------------------------------------------------- CloudShellInstance (data)

\* A CloudShellInstance as the dataclass constructs it, lines 39-53; a string
\* field holds the sequence of its characters, "" being <<>>.
NewInstance ==
    [status |-> "inactive", start_range |-> <<>>, end_range |-> <<>>,
     keys_per_second |-> 0, total_keys_checked |-> 0, errors |-> <<>>]

\* ------------------------------------------------------ StatisticsParser
\* A log line is the sequence of its '|' parts; a part says, for each label,
\* what follows it: the label is absent, the label ends the part, a token that
\* int()/float() rejects follows, or a token that reads as the number v.

Absent == [k |-> "absent", v |-> 0]
NoToken == [k |-> "notoken", v |-> 0]
BadToken == [k |-> "bad", v |-> 0]
Num(n) == [k |-> "num", v |-> n]

Part(t, v) == [total |-> t, vitesse |-> v]

IsNumber(tok) == tok.k = "num"

\* The for loop over the parts of one matching line, lines 317-323: the metrics
\* after the parts from position k on, and whether an exception ended the loop.
RECURSIVE ParseParts(_, _, _)
ParseParts(m, parts, k) ==
    IF k > Len(parts) THEN [m |-> m, raised |-> FALSE]
    ELSE LET part == parts[k] IN
         IF part.total # Absent
         THEN IF IsNumber(part.total)
              THEN ParseParts([m EXCEPT !.total_keys_checked = part.total.v], parts, k + 1)
              ELSE [m |-> m, raised |-> TRUE]
         ELSE IF part.vitesse # Absent
         THEN IF IsNumber(part.vitesse)
              THEN ParseParts([m EXCEPT !.keys_per_second = part.vitesse.v], parts, k + 1)
              ELSE [m |-> m, raised |-> TRUE]
         ELSE ParseParts(m, parts, k + 1)

LineMatches(parts) ==
    /\ \E k \in 1 .. Len(parts) : parts[k].total # Absent
    /\ \E k \in 1 .. Len(parts) : parts[k].vitesse # Absent

\* parse_statistics, lines 311-326: the instance after the first matching line.
RECURSIVE ParseLines(_, _, _)
ParseLines(inst, log_output, k) ==
    IF k > Len(log_output) THEN inst
    ELSE IF LineMatches(log_output[k])
         THEN ParseParts(inst, log_output[k], 1).m
         ELSE ParseLines(inst, log_output, k + 1)

parse_statistics(inst, log_output) == ParseLines(inst, log_output, 1)

\* ----------------------------------------------------------- RangeManager

\* Variant of InstanceHash that also counts the ranges already assigned.
InstanceHashByTableSize(name, num_instances) ==
    (hashOf[name] + Cardinality(DOMAIN assigned_ranges)) % num_instances

\* instance_hash = hash(instance_name) % num_instances, line 88.
InstanceHash(name, num_instances) == hashOf[name] % num_instances

\* get_range_for_instance, lines 81-97: the table after the call, and the pair
\* of hex strings it returns.
get_range_for_instance(name, num_instances) ==
    LET r == RangeForOrdinal(total_start, total_end,
                             InstanceHash(name, num_instances), num_instances)
    IN  [table |-> [n \in DOMAIN assigned_ranges \cup {name} |->
                       IF n = name THEN r ELSE assigned_ranges[n]],
         result |-> <<hex(r[1]), hex(r[2])>>]

\* create_config_for_instance, lines 213-220: the instance with its range set.
create_config_for_instance(inst, name) ==
    LET got == get_range_for_instance(name, Len(instances))
    IN  [inst EXCEPT !.start_range = got.result[1], !.end_range = got.result[2]]


\* ------------------------------------------------- CloudShellCoordinator

Status(w) == instances[w].status
InFlight(w) == polling[w] + fetching[w]
SetInstance(w, inst) == instances' = [instances EXCEPT ![w] = inst]

\* What a remote command can answer: it succeeds, it returns a non-zero exit
\* code, or subprocess.run raises (a timeout, an OSError).
Outcomes == {"ok", "fail", "exception"}

\* Variant of connect_to_instance that empties the errors list of an instance
\* it reaches.
connect_to_instance_ClearsErrors(inst, out) ==
    CASE out = "ok" -> [inst EXCEPT !.status = "connected", !.errors = <<>>]
      [] out = "fail" -> inst
      [] out = "exception" ->
            [inst EXCEPT !.errors = Append(@, "Connexion error")]

\* Variant of connect_to_instance whose except branch also sets the status
\* "error", as the except branches of the other remote commands do.
connect_to_instance_MarksError(inst, out) ==
    CASE out = "ok" -> [inst EXCEPT !.status = "connected"]
      [] out = "fail" -> inst
      [] out = "exception" ->
            [inst EXCEPT !.status = "error",
                         !.errors = Append(@, "Connexion error")]

\* connect_to_instance, lines 159-182.
connect_to_instance(inst, out) ==
    CASE out = "ok" -> [inst EXCEPT !.status = "connected"]
      [] out = "fail" -> inst
      [] out = "exception" ->
            [inst EXCEPT !.errors = Append(@, "Connexion error")]

\* start_solver_on_instance, lines 242-273: the configuration (and with it the
\* range) is made first, then the three commands run.
start_solver_on_instance(inst, name, out) ==
    LET configured == create_config_for_instance(inst, name)
    IN  IF out = "ok" THEN [configured EXCEPT !.status = "running"]
        ELSE configured

\* check_instance_status up to the liveness poll's answer, lines 277-290 and
\* 306-309: stdout holds NOT_RUNNING, stdout does not hold it (the process is
\* listed, or ssh failed and stdout is empty), or subprocess.run raised.
PollOutcomes == {"NOT_RUNNING", "listed", "exception"}

\* Variant of check_polled that also zeroes the metrics of an instance found
\* stopped.
check_polled_ZeroesMetrics(inst, out) ==
    CASE out = "NOT_RUNNING" -> [inst EXCEPT !.status = "stopped",
                                             !.keys_per_second = 0,
                                             !.total_keys_checked = 0]
      [] out = "listed" -> [inst EXCEPT !.status = "running"]
      [] out = "exception" ->
            [inst EXCEPT !.status = "error",
                         !.errors = Append(@, "Status check error")]

check_polled(inst, out) ==
    CASE out = "NOT_RUNNING" -> [inst EXCEPT !.status = "stopped"]
      [] out = "listed" -> [inst EXCEPT !.status = "running"]
      [] out = "exception" ->
            [inst EXCEPT !.status = "error",
                         !.errors = Append(@, "Status check error")]

\* The log tails the health check can fetch: nothing, a well-formed Stats
\* line, a Stats line whose Vitesse value is malformed.
LogOutputs ==
    { <<>>,
      << <<Part(Num(1), Absent), Part(Absent, Num(1))>> >>,
      << <<Part(Num(1), Absent), Part(Absent, BadToken)>> >> }

LogResults ==
    {[raised |-> TRUE, stdout |-> <<>>]}
        \cup {[raised |-> FALSE, stdout |-> l] : l \in LogOutputs}

\* check_instance_status from the log fetch on, lines 292-309.
check_fetched(inst, res) ==
    IF res.raised
    THEN [inst EXCEPT !.status = "error",
                      !.errors = Append(@, "Status check error")]
    ELSE IF res.stdout # <<>> THEN parse_statistics(inst, res.stdout)
    ELSE inst

\* A remote command raises only in a run whose remote side does, and only
\* while the instance's errors list has room for the entry.
Room(w, raised) ==
    raised => ("raises" \in env /\ Len(instances[w].errors) < MaxErrors)

\* The log fetch prints Stats lines only in a run whose remote side does.
Logs(res) == res.stdout # <<>> => "stats" \in env

\* The coordinator as __init__ leaves it, lines 108-114, with no thread started.
IdleFleet ==
    /\ instances = <<>>
    /\ running = FALSE
    /\ cpc = "init"
    /\ cidx = 0
    /\ hpc = "idle"
    /\ polling = [w \in AllNames |-> 0]
    /\ fetching = [w \in AllNames |-> 0]

NoParse == stats = [log_output |-> <<>>, inst |-> NewInstance, result |-> <<>>]

NoHistory ==
    /\ everRunning = {}
    /\ assignedN = [w \in AllNames |-> 0]
    /\ redeploy = <<>>
    /\ restarting = <<>>
    /\ runningAtStop = {}
    /\ connectFailed = {}
    /\ stopAttempts = [w \in AllNames |-> <<>>]
    /\ statusAtVisit = [w \in AllNames |-> "unvisited"]

Init ==
    /\ total_start = MaxStart
    /\ total_end = total_start + MaxSpan
    /\ assigned_ranges = <<>>
    /\ hashOf \in [AllNames -> 0 .. MaxHash]
    /\ calc = [n |-> 0, ranges |-> <<>>]
    /\ NoParse
    /\ env = {"raises"}
    /\ IdleFleet
    /\ NoHistory

\* add_instance, lines 116-129; names are taken in the order 1, 2, ...  It is
\* called before start_coordination, and later only between two rounds of the
\* control thread's main loop.
add_instance ==
    /\ cpc \in {"init", "main"}
    /\ Len(instances) < MaxWorkers
    /\ instances' = Append(instances, NewInstance)
    /\ redeploy' = <<>>
    /\ restarting' = <<>>
    /\ UNCHANGED <<rangeVars, calc, stats, env, running, cpc, cidx, hpc, polling, fetching,
                   otherHist>>

\* start_coordination, lines 413-423: the flag is set and the health thread
\* started; the for loop of lines 425-429 follows.
start_coordination ==
    /\ cpc = "init"
    /\ Len(instances) >= 1
    /\ running' = TRUE
    /\ cpc' = "start_connect"
    /\ cidx' = 1
    /\ UNCHANGED <<rangeVars, calc, stats, env, instances, hpc, polling, fetching, histVars>>

\* The for loop of lines 425-429 moves to the next instance, or ends.
AdvanceStart ==
    IF cidx < Len(instances)
    THEN cpc' = "start_connect" /\ cidx' = cidx + 1
    ELSE cpc' = "main" /\ cidx' = 0

\* Line 427.
StartConnect(out) ==
    /\ cpc = "start_connect"
    /\ Room(cidx, out = "exception")
    /\ SetInstance(cidx, connect_to_instance(instances[cidx], out))
    /\ IF out = "ok" THEN cpc' = "start_upload" /\ cidx' = cidx ELSE AdvanceStart
    /\ connectFailed' = IF out = "ok" THEN connectFailed ELSE connectFailed \cup {cidx}
    /\ UNCHANGED <<rangeVars, calc, stats, env, running, hpc, polling, fetching, everRunning,
                   assignedN, redeploy, restarting, runningAtStop, stopAttempts, statusAtVisit>>

\* Line 428, upload_files_to_instance, lines 184-211: nothing of the instance
\* is written, whatever the outcome.
StartUpload(out) ==
    /\ cpc = "start_upload"
    /\ IF out = "ok" THEN cpc' = "start_run" /\ cidx' = cidx ELSE AdvanceStart
    /\ UNCHANGED <<rangeVars, calc, stats, env, instances, running, hpc, polling, fetching,
                   everRunning, assignedN, redeploy, restarting, runningAtStop, connectFailed, stopAttempts,
                   statusAtVisit>>

\* What start_solver_on_instance does to the instance and the range table.
RunSolver(w, out) ==
    /\ SetInstance(w, start_solver_on_instance(instances[w], w, out))
    /\ assigned_ranges' = get_range_for_instance(w, Len(instances)).table
    /\ assignedN' = [assignedN EXCEPT ![w] = Len(instances)]
    /\ everRunning' = IF out = "ok" THEN everRunning \cup {w} ELSE everRunning

\* Line 429.
StartSolver(out) ==
    /\ cpc = "start_run"
    /\ RunSolver(cidx, out)
    /\ AdvanceStart
    /\ UNCHANGED <<total_start, total_end, hashOf, calc, stats, env, running, hpc, polling,
                   fetching, redeploy, restarting, runningAtStop, connectFailed, stopAttempts, statusAtVisit>>

\* Line 434: the main loop calls display_status, whose for loop of lines
\* 339-356 reads the instances one after the other.
DisplayBegin ==
    /\ cpc = "main"
    /\ running
    /\ cpc' = "display"
    /\ cidx' = 1
    /\ redeploy' = <<>>
    /\ restarting' = <<>>
    /\ UNCHANGED <<rangeVars, calc, stats, env, instances, running, hpc, polling,
                   fetching, otherHist>>

\* One round of the for loop of lines 339-356: status, keys_per_second and
\* total_keys_checked of one instance are read and printed; after the last
\* instance the totals are printed and the main loop sleeps (line 435).
DisplayRead ==
    /\ cpc = "display"
    /\ IF cidx < Len(instances)
       THEN cpc' = "display" /\ cidx' = cidx + 1
       ELSE cpc' = "main" /\ cidx' = 0
    /\ UNCHANGED <<rangeVars, calc, stats, env, instances, running, hpc, polling,
                   fetching, histVars>>

\* Lines 433-439: the main loop's clock test passes and restart_failed_instances
\* is entered.
RestartBegin ==
    /\ cpc = "main"
    /\ running
    /\ cpc' = "restart_check"
    /\ cidx' = 1
    /\ redeploy' = <<>>
    /\ restarting' = <<>>
    /\ UNCHANGED <<rangeVars, calc, stats, env, instances, running, hpc, polling, fetching,
                   otherHist>>

AdvanceRestart ==
    IF cidx < Len(instances)
    THEN cpc' = "restart_check" /\ cidx' = cidx + 1
    ELSE cpc' = "main" /\ cidx' = 0

\* Line 401: the status is read.
RestartCheck ==
    /\ cpc = "restart_check"
    /\ IF Status(cidx) \in {"stopped", "error"}
       THEN cpc' = "restart_connect" /\ cidx' = cidx
       ELSE AdvanceRestart
    /\ redeploy' = <<>>
    /\ restarting' = IF Status(cidx) \in {"stopped", "error"}
                     THEN << [name |-> cidx,
                              status |-> Status(cidx),
                              errors |-> instances[cidx].errors] >>
                     ELSE <<>>
    /\ UNCHANGED <<rangeVars, calc, stats, env, instances, running, hpc, polling, fetching,
                   otherHist>>

\* Line 403.
RestartConnect(out) ==
    /\ cpc = "restart_connect"
    /\ Room(cidx, out = "exception")
    /\ SetInstance(cidx, connect_to_instance(instances[cidx], out))
    /\ IF out = "ok" THEN cpc' = "restart_run" /\ cidx' = cidx ELSE AdvanceRestart
    /\ UNCHANGED <<rangeVars, calc, stats, env, running, hpc, polling, fetching, everRunning,
                   assignedN, redeploy, restarting, runningAtStop, connectFailed, stopAttempts, statusAtVisit>>

\* Line 404.
RestartSolver(out) ==
    /\ cpc = "restart_run"
    /\ RunSolver(cidx, out)
    /\ redeploy' = << [name |-> cidx,
                        started |-> (out = "ok"),
                        n_before |-> assignedN[cidx],
                        before |-> <<instances[cidx].start_range,
                                     instances[cidx].end_range>>,
                        n_after |-> Len(instances),
                        after |-> <<instances'[cidx].start_range,
                                    instances'[cidx].end_range>>] >>
    /\ AdvanceRestart
    /\ UNCHANGED <<total_start, total_end, hashOf, calc, stats, env, running, hpc, polling,
                   fetching, restarting, runningAtStop, connectFailed, stopAttempts, statusAtVisit>>

\* KeyboardInterrupt reaches the control thread (lines 441-443 and 527-529) and
\* stop_coordination is entered: line 447.
StopRequested ==
    /\ cpc \in {"start_connect", "start_upload", "start_run", "main", "display",
                "restart_check", "restart_connect", "restart_run"}
    /\ running' = FALSE
    /\ cpc' = "stop_visit"
    /\ cidx' = 1
    /\ runningAtStop' = {w \in Names : Status(w) = "running"}
    /\ redeploy' = <<>>
    /\ restarting' = <<>>
    /\ UNCHANGED <<rangeVars, calc, stats, env, instances, hpc, polling, fetching, everRunning,
                   assignedN, connectFailed, stopAttempts, statusAtVisit>>

AdvanceStop ==
    IF cidx < Len(instances)
    THEN cpc' = "stop_visit" /\ cidx' = cidx + 1
    ELSE cpc' = "shutdown" /\ cidx' = 0

StopOutcomes == {"ok", "exception"}

\* Variant of StopVisit whose loop ends at the first stop command that raises
\* (the try of line 453 around the loop instead of inside it).
StopVisitAbortsOnError(out) ==
    /\ cpc = "stop_visit"
    /\ statusAtVisit' = [statusAtVisit EXCEPT ![cidx] = Status(cidx)]
    /\ stopAttempts' = [stopAttempts EXCEPT ![cidx] =
                           IF Status(cidx) = "running" THEN Append(@, out) ELSE @]
    /\ IF Status(cidx) = "running" /\ out = "exception"
       THEN cpc' = "shutdown" /\ cidx' = 0
       ELSE AdvanceStop
    /\ UNCHANGED <<rangeVars, calc, stats, env, instances, running, hpc, polling, fetching,
                   everRunning, assignedN, redeploy, restarting, runningAtStop, connectFailed>>

\* One round of the for loop of lines 451-462: the status is read and, when it
\* is "running", the stop command runs; its exception is caught.
StopVisit(out) ==
    /\ cpc = "stop_visit"
    /\ statusAtVisit' = [statusAtVisit EXCEPT ![cidx] = Status(cidx)]
    /\ stopAttempts' = [stopAttempts EXCEPT ![cidx] =
                           IF Status(cidx) = "running" THEN Append(@, out) ELSE @]
    /\ AdvanceStop
    /\ UNCHANGED <<rangeVars, calc, stats, env, instances, running, hpc, polling, fetching,
                   everRunning, assignedN, redeploy, restarting, runningAtStop, connectFailed>>

\* Line 464, executor.shutdown(wait=True): returns when no task is left.
ShutdownExecutor ==
    /\ cpc = "shutdown"
    /\ \A w \in AllNames : InFlight(w) = 0
    /\ cpc' = "done"
    /\ UNCHANGED <<rangeVars, calc, stats, env, instances, running, cidx, hpc, polling,
                   fetching, histVars>>

\* A log fetch that future.result gave up on is still unanswered after the
\* sleep of line 392 only in a run whose remote side is that slow.
Answered(w) == "slow" \notin env => InFlight(w) = 0

\* health_check_loop, lines 377-383: one check is submitted for every
\* instance that is not "inactive".
HealthSubmit ==
    /\ hpc = "idle"
    /\ running
    /\ \A w \in Names : Status(w) # "inactive" => InFlight(w) < MaxChecks
    /\ \A w \in Names : Answered(w)
    /\ polling' = [w \in AllNames |->
                      IF w \in Names /\ Status(w) # "inactive"
                      THEN polling[w] + 1 ELSE polling[w]]
    /\ hpc' = "waiting"
    /\ UNCHANGED <<rangeVars, calc, stats, env, instances, running, cpc, cidx, fetching,
                   histVars>>

\* Lines 386-392: every future has given its result.
HealthWaitDone ==
    /\ hpc = "waiting"
    /\ \A w \in AllNames : InFlight(w) = 0
    /\ hpc' = "idle"
    /\ UNCHANGED <<rangeVars, calc, stats, env, instances, running, cpc, cidx, polling,
                   fetching, histVars>>

\* Lines 386-392: future.result(timeout=30) gave up on the checks that are
\* still in their log fetch, which has no timeout (line 299).
HealthWaitTimeout ==
    /\ hpc = "waiting"
    /\ \A w \in AllNames : polling[w] = 0
    /\ \E w \in AllNames : fetching[w] > 0
    /\ hpc' = "idle"
    /\ UNCHANGED <<rangeVars, calc, stats, env, instances, running, cpc, cidx, polling,
                   fetching, histVars>>

\* A check task gets the answer of its liveness poll, lines 285-290, 304-309.
CheckPoll(w, out) ==
    /\ w \in Names
    /\ polling[w] > 0
    /\ Room(w, out = "exception")
    /\ SetInstance(w, check_polled(instances[w], out))
    /\ polling' = [polling EXCEPT ![w] = @ - 1]
    /\ fetching' = [fetching EXCEPT ![w] = IF out = "listed" THEN @ + 1 ELSE @]
    /\ everRunning' = IF out = "listed" THEN everRunning \cup {w} ELSE everRunning
    /\ UNCHANGED <<rangeVars, calc, stats, env, running, cpc, cidx, hpc, assignedN,
                   redeploy, restarting, runningAtStop, connectFailed, stopAttempts, statusAtVisit>>

\* A check task gets the answer of its log fetch, lines 299-309.
CheckLog(w, res) ==
    /\ w \in Names
    /\ fetching[w] > 0
    /\ Room(w, res.raised)
    /\ Logs(res)
    /\ SetInstance(w, check_fetched(instances[w], res))
    /\ fetching' = [fetching EXCEPT ![w] = @ - 1]
    /\ UNCHANGED <<rangeVars, calc, stats, env, running, cpc, cidx, hpc, polling, histVars>>

Next ==
    \/ add_instance
    \/ start_coordination
    \/ \E out \in Outcomes : StartConnect(out)
    \/ \E out \in Outcomes : StartUpload(out)
    \/ \E out \in Outcomes : StartSolver(out)
    \/ DisplayBegin
    \/ DisplayRead
    \/ RestartBegin
    \/ RestartCheck
    \/ \E out \in Outcomes : RestartConnect(out)
    \/ \E out \in Outcomes : RestartSolver(out)
    \/ StopRequested
    \/ \E out \in StopOutcomes : StopVisit(out)
    \/ ShutdownExecutor
    \/ HealthSubmit
    \/ HealthWaitDone
    \/ HealthWaitTimeout
    \/ \E w \in AllNames : \E out \in PollOutcomes : CheckPoll(w, out)
    \/ \E w \in AllNames : \E res \in LogResults : CheckLog(w, res)

\* The remote side of Spec raises (timeouts, OSError) and prints no Stats line.
Spec == Init /\ [][Next]_vars

\* The remote side of SpecStats prints Stats lines and never raises.
InitStats ==
    /\ total_start = MaxStart
    /\ total_end = total_start + MaxSpan
    /\ assigned_ranges = <<>>
    /\ hashOf \in [AllNames -> 0 .. MaxHash]
    /\ calc = [n |-> 0, ranges |-> <<>>]
    /\ NoParse
    /\ env = {"stats"}
    /\ IdleFleet
    /\ NoHistory

SpecStats == InitStats /\ [][Next]_vars

\* The remote side of SpecSlow neither raises nor prints Stats lines, and its
\* log fetch can stay unanswered over a whole sweep interval.
InitSlow ==
    /\ total_start = MaxStart
    /\ total_end = total_start + MaxSpan
    /\ assigned_ranges = <<>>
    /\ hashOf \in [AllNames -> 0 .. MaxHash]
    /\ calc = [n |-> 0, ranges |-> <<>>]
    /\ NoParse
    /\ env = {"slow"}
    /\ IdleFleet
    /\ NoHistory

SpecSlow == InitSlow /\ [][Next]_vars

\* --------------------------------------------- range computations on their own
\* The range arithmetic as a function of the ordinal: the total interval and
\* num_instances are drawn at the start, and each step computes one ordinal.

InitRange ==
    /\ total_start \in 0 .. MaxStart
    /\ total_end \in total_start .. (total_start + MaxSpan)
    /\ assigned_ranges = <<>>
    /\ hashOf = [w \in AllNames |-> 0]
    /\ calc \in {[n |-> n, ranges |-> <<>>] : n \in 1 .. MaxN}
    /\ NoParse
    /\ env = {}
    /\ IdleFleet
    /\ NoHistory

ComputeRange(i) ==
    /\ i \notin DOMAIN calc.ranges
    /\ calc' = [calc EXCEPT !.ranges =
                   [j \in DOMAIN calc.ranges \cup {i} |->
                       IF j = i THEN RangeForOrdinal(total_start, total_end, i, calc.n)
                       ELSE calc.ranges[j]]]
    /\ UNCHANGED <<rangeVars, stats, env, fleetVars, histVars>>

NextRange == \E i \in 0 .. (calc.n - 1) : ComputeRange(i)

SpecRange == InitRange /\ [][NextRange]_vars

\* ------------------------------------------------------------ scheduling
\* What the code's scheduling guarantees.  The control thread and the health
\* thread keep running, and every remote command they wait for has a timeout
\* (30, 60, 10 and 10 s, lines 169, 202, 263 and 459; future.result, line 388),
\* so each of them takes its next step.  The liveness poll of a check has a
\* timeout too (15 s, line 285).  Nothing is guaranteed of the clock test of
\* line 438 (RestartBegin), of a KeyboardInterrupt (StopRequested), of a call of
\* add_instance, or of the log fetch of a check, which has no timeout (line 299).

ControlThread ==
    \/ start_coordination
    \/ \E out \in Outcomes : StartConnect(out)
    \/ \E out \in Outcomes : StartUpload(out)
    \/ \E out \in Outcomes : StartSolver(out)
    \/ DisplayBegin
    \/ DisplayRead
    \/ RestartCheck
    \/ \E out \in Outcomes : RestartConnect(out)
    \/ \E out \in Outcomes : RestartSolver(out)
    \/ \E out \in StopOutcomes : StopVisit(out)
    \/ ShutdownExecutor

HealthThread ==
    \/ HealthSubmit
    \/ HealthWaitDone
    \/ HealthWaitTimeout

PollAnswers(w) == \E out \in PollOutcomes : CheckPoll(w, out)

Fairness ==
    /\ WF_vars(ControlThread)
    /\ WF_vars(HealthThread)
    /\ \A w \in AllNames : WF_vars(PollAnswers(w))

\* The remote side of SpecLive neither raises nor prints Stats lines.
InitLive ==
    /\ total_start = MaxStart
    /\ total_end = total_start + MaxSpan
    /\ assigned_ranges = <<>>
    /\ hashOf = [w \in AllNames |-> (w - 1) % (MaxHash + 1)]
    /\ calc = [n |-> 0, ranges |-> <<>>]
    /\ NoParse
    /\ env = {}
    /\ IdleFleet
    /\ NoHistory

SpecLive == InitLive /\ [][Next]_vars /\ Fairness

\* ------------------------------------------- the range table on its own
\* The fleet grows by add_instance and create_config_for_instance is called
\* for any instance of it, in any order; no thread runs.

InitAssign ==
    /\ total_start \in 0 .. MaxStart
    /\ total_end \in total_start .. (total_start + MaxSpan)
    /\ assigned_ranges = <<>>
    /\ hashOf \in [AllNames -> 0 .. MaxHash]
    /\ calc = [n |-> 0, ranges |-> <<>>]
    /\ NoParse
    /\ env = {}
    /\ IdleFleet
    /\ NoHistory

AssignRange(w) ==
    /\ cpc = "init"
    /\ w \in Names
    /\ SetInstance(w, create_config_for_instance(instances[w], w))
    /\ assigned_ranges' = get_range_for_instance(w, Len(instances)).table
    /\ assignedN' = [assignedN EXCEPT ![w] = Len(instances)]
    /\ UNCHANGED <<total_start, total_end, hashOf, calc, stats, env, running, cpc, cidx,
                   hpc, polling, fetching, everRunning, redeploy, restarting,
                   runningAtStop, connectFailed, stopAttempts, statusAtVisit>>

NextAssign ==
    \/ add_instance
    \/ \E w \in AllNames : AssignRange(w)

SpecAssign == InitAssign /\ [][NextAssign]_vars

\* ------------------------------------------------ parse_statistics on its own
\* The log and the instance are drawn at the start; the one step parses.

Tokens == {Absent, NoToken, BadToken} \cup {Num(n) : n \in 1 .. MaxMetric}
Parts == {Part(t, v) : t \in Tokens, v \in Tokens}
SeqsUpTo(S, n) == UNION {[1 .. k -> S] : k \in 0 .. n}
Lines == SeqsUpTo(Parts, MaxParts) \ {<<>>}
LogTails == SeqsUpTo(Lines, MaxLines)

InitParse ==
    /\ total_start = MaxStart
    /\ total_end = total_start + MaxSpan
    /\ assigned_ranges = <<>>
    /\ hashOf = [w \in AllNames |-> 0]
    /\ calc = [n |-> 0, ranges |-> <<>>]
    /\ stats \in {[log_output |-> l, inst |-> NewInstance, result |-> <<>>] :
                    l \in LogTails}
    /\ env = {}
    /\ IdleFleet
    /\ NoHistory

Parse ==
    /\ stats.result = <<>>
    /\ stats' = [stats EXCEPT !.result = <<parse_statistics(stats.inst, stats.log_output)>>]
    /\ UNCHANGED <<rangeVars, calc, env, fleetVars, histVars>>

NextParse == Parse

SpecParse == InitParse /\ [][NextParse]_vars

Ordinals == 0 .. (calc.n - 1)
AllComputed == calc.n >= 1 /\ DOMAIN calc.ranges = Ordinals
TotalCount == total_end - total_start + 1
Count(r) == Cardinality(Values(r))

\* C2 (coverage): once every ordinal 0..N-1 has its sub-interval, every value
\* of [S,E] lies in some sub-interval and no sub-interval holds a value
\* outside [S,E].
C2_Coverage ==
    AllComputed =>
        UNION {Values(calc.ranges[i]) : i \in Ordinals} = total_start .. total_end

C2_Witness ==
    /\ AllComputed
    /\ calc.n >= 3
    /\ TotalCount > calc.n
    /\ TotalCount % calc.n # 0

\* C3 (disjointness): the sub-intervals of two different ordinals share no value.
C3_Disjoint ==
    \A i \in DOMAIN calc.ranges : \A j \in DOMAIN calc.ranges :
        i # j => Values(calc.ranges[i]) \cap Values(calc.ranges[j]) = {}

C3_Witness ==
    \E i \in DOMAIN calc.ranges : \E j \in DOMAIN calc.ranges :
        /\ i # j
        /\ Values(calc.ranges[i]) # {}
        /\ Values(calc.ranges[j]) # {}

\* The sub-interval the specification's formula gives ordinal i of n:
\* size = (end - start + 1) / n.
SpecifiedRange(i, n) ==
    LET size == TotalCount \div n
        lo == total_start + i * size
    IN  <<lo, IF i = n - 1 THEN total_end ELSE lo + size - 1>>

\* C4 (as claimed): every computed sub-interval is the one obtained with
\* size = (E - S + 1) div N, and when E - S + 1 is a multiple of N all
\* sub-intervals hold the same number of values.
C4_SizeCountsBothEnds ==
    /\ \A i \in DOMAIN calc.ranges : calc.ranges[i] = SpecifiedRange(i, calc.n)
    /\ (AllComputed /\ TotalCount % calc.n = 0) =>
           \A i \in Ordinals : Count(calc.ranges[i]) = TotalCount \div calc.n

\* C5 (remainder absorption): when E - S + 1 is not a multiple of N, every
\* ordinal before the last holds exactly floor((E-S+1)/N) values and the last
\* one holds more.
C5_RemainderInLast ==
    TotalCount % calc.n # 0 =>
        \A i \in DOMAIN calc.ranges :
            IF i < calc.n - 1
            THEN Count(calc.ranges[i]) = TotalCount \div calc.n
            ELSE Count(calc.ranges[i]) > TotalCount \div calc.n

C5_Witness ==
    /\ AllComputed
    /\ calc.n >= 2
    /\ TotalCount % calc.n >= 2
    /\ TotalCount \div calc.n >= 1


\* ------------------------------------------------------ claims on the fleet

AssignedValues(w) == Values(assigned_ranges[w])

\* C1 (as claimed): once every instance of the fleet has been given a range
\* for the present number of instances, the instances hold distinct ordinals,
\* their recorded intervals are pairwise disjoint and together they are
\* exactly [total_start, total_end].
C1_FleetPartition ==
    (Len(instances) >= 1 /\ \A w \in Names : assignedN[w] = Len(instances)) =>
        /\ \A v \in Names : \A w \in Names :
              v # w => /\ InstanceHash(v, Len(instances)) # InstanceHash(w, Len(instances))
                       /\ AssignedValues(v) \cap AssignedValues(w) = {}
        /\ UNION {AssignedValues(w) : w \in Names} = total_start .. total_end

\* C6 (as claimed): an instance whose status has never been "running" is
\* "inactive", "connected" or "error", never "stopped".
C6_NoStoppedBeforeRunning ==
    \A w \in Names :
        w \notin everRunning => Status(w) \in {"inactive", "connected", "error"}

\* C7 (restart preserves assignment): when the restart sweep redeploys an
\* instance that already held a range and the number of instances is the one
\* of its previous assignment, the start_range and end_range written are the
\* ones it held.
C7_RestartKeepsRange ==
    redeploy # <<>> =>
        LET r == redeploy[1]
        IN  (r.n_before = r.n_after /\ r.before[1] # <<>>) => r.after = r.before

C7_Witness ==
    /\ redeploy # <<>>
    /\ redeploy[1].n_before = redeploy[1].n_after
    /\ redeploy[1].n_after >= 2
    /\ redeploy[1].before[1] # <<>>
    /\ Status(redeploy[1].name) = "running"
    /\ instances[redeploy[1].name].errors # <<>>

\* C8 (as claimed): a status becomes "running" only in the step of the start
\* sequence that follows a successful upload and starts the process.
C8_RunningOnlyByDeploy ==
    [][\A w \in Names :
          (Status(w) # "running" /\ instances'[w].status = "running") =>
              (cpc = "start_run" /\ cidx = w /\ cpc' \in {"start_connect", "main"})]_vars

\* C9 (as claimed): when an instance's start sequence ends after a successful
\* connect because the upload failed or the process start failed, its status
\* is "error", one entry more is in its errors list, and a range it held is
\* still the one it holds.
C9_PartialFailureRecorded ==
    [][( \/ (cpc = "start_upload" /\ cpc' \in {"start_connect", "main"})
         \/ (/\ cpc = "start_run"
             /\ cpc' \in {"start_connect", "main"}
             /\ instances'[cidx].status # "running") ) =>
           /\ instances'[cidx].status = "error"
           /\ Len(instances'[cidx].errors) = Len(instances[cidx].errors) + 1
           /\ (instances[cidx].start_range # <<>> =>
                  /\ instances'[cidx].start_range = instances[cidx].start_range
                  /\ instances'[cidx].end_range = instances[cidx].end_range)]_vars

StopLoopOver == cpc \in {"shutdown", "done"}

\* C10 (as claimed): when the stop loop is over, exactly the instances that
\* were "running" when stop_coordination was entered have had a stop command,
\* one each.
C10_StopsRunningAtRequest ==
    StopLoopOver =>
        \A w \in Names :
            Len(stopAttempts[w]) = IF w \in runningAtStop THEN 1 ELSE 0

\* C10 (amended): the stop loop attempts one stop command on exactly the
\* instances whose status is "running" when the loop reads it; it reads every
\* instance, also after a stop command that raised; and no step of
\* stop_coordination writes an instance.
C10_StopsRunningAtVisit ==
    /\ [](\A w \in Names :
             Len(stopAttempts[w]) = IF statusAtVisit[w] = "running" THEN 1 ELSE 0)
    /\ [](StopLoopOver => \A w \in Names : statusAtVisit[w] # "unvisited")
    /\ [][(cpc \in {"stop_visit", "shutdown"} /\ <<cpc, cidx>>' # <<cpc, cidx>>) =>
             instances' = instances]_vars

C10_Witness ==
    /\ cpc = "done"
    /\ \E v \in Names : \E w \in Names :
          /\ stopAttempts[v] = <<"exception">>
          /\ v < w
          /\ stopAttempts[w] = <<"ok">>

\* ------------------------------------------------ claims on the health check

\* C12 (stopped keeps metrics): when the liveness poll of an instance whose
\* status is "running" answers NOT_RUNNING (the poll ends, no log fetch follows
\* and nothing is appended to errors), the status becomes "stopped" and
\* keys_per_second and total_keys_checked keep their values.
C12_StoppedKeepsMetrics ==
    [][\A w \in Names :
          (/\ Status(w) = "running"
           /\ polling'[w] < polling[w]
           /\ fetching'[w] = fetching[w]
           /\ instances'[w].errors = instances[w].errors) =>
              /\ instances'[w].status = "stopped"
              /\ instances'[w].keys_per_second = instances[w].keys_per_second
              /\ instances'[w].total_keys_checked = instances[w].total_keys_checked]_vars

C12_Witness ==
    \E w \in Names :
        /\ Status(w) = "stopped"
        /\ instances[w].keys_per_second = 1
        /\ instances[w].total_keys_checked = 1
        /\ InFlight(w) = 0

\* ------------------------------------------------ claims on the restart sweep

IsPrefix(s, t) == Len(s) <= Len(t) /\ SubSeq(t, 1, Len(s)) = s

FirstMatch(log_output) ==
    IF \E k \in 1 .. Len(log_output) : LineMatches(log_output[k])
    THEN CHOOSE k \in 1 .. Len(log_output) :
            /\ LineMatches(log_output[k])
            /\ \A j \in 1 .. (k - 1) : ~LineMatches(log_output[j])
    ELSE 0

\* A label of the line is followed by no value, or by one that is no number.
Malformed(parts) ==
    \E k \in 1 .. Len(parts) :
        \/ parts[k].total # Absent /\ ~IsNumber(parts[k].total)
        \/ parts[k].vitesse # Absent /\ ~IsNumber(parts[k].vitesse)

\* C14 (as claimed): when no line of the log holds both labels, or the first
\* such line has a missing or malformed value, parse_statistics leaves both
\* metrics as they were; and it never changes one metric without the other.
C14_AllOrNothing ==
    stats.result # <<>> =>
        LET before == stats.inst
            after == stats.result[1]
            k == FirstMatch(stats.log_output)
        IN  /\ (k = 0 \/ Malformed(stats.log_output[k])) =>
                   /\ after.total_keys_checked = before.total_keys_checked
                   /\ after.keys_per_second = before.keys_per_second
            /\ (after.total_keys_checked # before.total_keys_checked)
                   <=> (after.keys_per_second # before.keys_per_second)

\* ------------------------------------------------ claims on the range table

\* C20 (as claimed): once an instance has been given its range for the present
\* number of instances, every entry of assigned_ranges is the range that this
\* number of instances gives its instance: no entry computed for an earlier
\* number of instances is left in the table.
C20_TableOfOneCount ==
    (\E w \in DOMAIN assigned_ranges : assignedN[w] = Len(instances)) =>
        \A v \in DOMAIN assigned_ranges :
            assigned_ranges[v] =
                RangeForOrdinal(total_start, total_end,
                                InstanceHash(v, Len(instances)), Len(instances))

\* C18 (as claimed): the step in which a check's log fetch ends, whatever it
\* brought (an exception, no output, a line that does not parse), leaves the
\* status the liveness poll has set: it never makes it "error".
C18_LogFailureKeepsStatus ==
    [][\A w \in Names :
          fetching'[w] < fetching[w] => instances'[w].status = instances[w].status]_vars

\* C17 (as claimed): when the sweep's wait for a check runs out
\* (future.result(timeout=30) gives up on a check still in flight), that
\* check's instance gets the status "error" and one more entry in its errors
\* list.
C17_TimeoutMarksFailed ==
    [][(hpc = "waiting" /\ hpc' = "idle") =>
          \A w \in Names :
              InFlight(w) > 0 =>
                  /\ instances'[w].status = "error"
                  /\ Len(instances'[w].errors) = Len(instances[w].errors) + 1]_vars

\* ------------------------------------------------ claims on the two threads

\* A step that is not the control thread's.
OtherThreadStep == <<cpc, cidx>>' = <<cpc, cidx>>

Metrics(inst) == <<inst.status, inst.keys_per_second, inst.total_keys_checked>>

\* C16 (as claimed): while display_status is reading the fleet no other
\* thread writes an instance's status or metrics, and while the control
\* thread is inside the start or restart sequence of an instance no other
\* thread writes that instance's status.
C16_AccessSerialized ==
    [][OtherThreadStep =>
          /\ cpc = "display" =>
                 \A w \in Names : Metrics(instances'[w]) = Metrics(instances[w])
          /\ cpc \in {"start_upload", "start_run", "restart_connect", "restart_run"} =>
                 instances'[cidx].status = instances[cidx].status]_vars

\* C15 (as claimed): when the health thread submits the checks of a new
\* iteration no check of an earlier iteration is still in the pool, and at
\* any time at most one check of an instance is in the pool.
C15_SweepNeverOverlaps ==
    /\ [][(hpc = "idle" /\ hpc' = "waiting") =>
             \A w \in Names : InFlight(w) = 0]_vars
    /\ [](\A w \in Names : InFlight(w) <= 1)

\* ------------------------------------------------ claims on progress

\* C11 (as claimed): once stop_coordination has been entered it returns: the
\* stop loop ends and executor.shutdown(wait=True) comes back.
C11_ShutdownReturns == (cpc = "stop_visit") ~> (cpc = "done")

NeedsRestart(w) == w \in Names /\ Status(w) \in {"stopped", "error"}

\* C19 (as claimed): while the fleet is running, an instance whose status is
\* "stopped" or "error" is eventually taken by the restart sweep, which calls
\* connect_to_instance for it (unless a stop is requested, or a check finds
\* the process alive before).
C19_FailedIsRestarted ==
    \A w \in AllNames :
        (running /\ NeedsRestart(w))
            ~> \/ ~running
               \/ ~NeedsRestart(w)
               \/ (cpc = "restart_connect" /\ cidx = w)

\* ------------------------------------------------ claims on the idle instance

\* C21 (failed first connect stays idle): an instance whose connect of the
\* start sequence failed keeps the status "inactive" from then on: no check
\* of it is ever in the pool, the control thread is never again inside a
\* connect, upload or start for it, it is given no range, and the stop loop
\* sends it no stop command.
C21_FailedConnectStaysIdle ==
    \A w \in connectFailed :
        /\ Status(w) = "inactive"
        /\ InFlight(w) = 0
        /\ cpc \in {"start_connect", "start_upload", "start_run",
                    "restart_connect", "restart_run"} => cidx # w
        /\ instances[w].start_range = <<>>
        /\ w \notin DOMAIN assigned_ranges
        /\ stopAttempts[w] = <<>>

C21_Witness ==
    /\ 1 \in connectFailed
    /\ instances[1].errors # <<>>
    /\ cpc = "restart_run"
    /\ cidx = 2
    /\ InFlight(2) > 0

=============================================================================
